---- MODULE Spec2Model ----
(***************************************************************************)
(* Model of server/hosts/ssh_host.py: SSHHost (construction, setup_ssh,    *)
(* run, run_short, run_grep) and AsyncSSHMixin.run_async, with the job's    *)
(* kill function and concurrent callers of run and run_async.              *)
(*                                                                         *)
(* A stream (stdout, stderr) is a sequence of text fragments:              *)
(*   "HEAD"  the text  ssh: connect to host                                *)
(*   "TAIL"  the text   port 22: Connection timed out\r                    *)
(*   "PD"    the text  Permission denied.                                  *)
(*   "x"     some other text without a newline                             *)
(*   "NL"    a newline                                                     *)
(* The empty sequence is the empty string.                                 *)
(***************************************************************************)
EXTENDS Integers, Sequences, FiniteSets, TLC

VARIABLES
    password,      \* self.password is set (truthy)
    phase,         \* "new" before _initialize, "ready" after it, "failed" if it raised
    master,        \* a master ssh connection has been started for this host
    installs,      \* number of calls of ssh_key.setup_ssh_key so far
    job,           \* the AsyncJob run_async handed out last: "none" or "running"
    op,            \* the operation last called (or, with outcome pending, being called)
    args,          \* its arguments
    proc,          \* what the local process of that call did
    env,           \* what ssh_ping, setup_ssh_key and send_file did in that call
    outcome,       \* what the call gave its caller
    log,           \* the collaborator calls and checks the call made, in order
    threads        \* the concurrent callers of run and run_async, one call each

vars == <<password, phase, master, installs, job, op, args, proc, env, outcome, log,
         threads>>

-----------------------------------------------------------------------------
(* Bounds and program constants *)

MaxStrLen == 3         \* longest stream, in fragments, of a run call
MaxGrepLen == 2        \* longest stream, in fragments, of a run_grep call
MaxInstalls == 2       \* setup_ssh_key calls counted before the model stops counting
MaxThreads == 2        \* concurrent callers of run and run_async on one host
MaxKills == 2          \* calls of one job's kill_func
SSH_ERROR == 255       \* the exit status ssh itself reports errors with
NoStatus == -1         \* exit_status of a process that never finished (None)

Fragments == {"HEAD", "TAIL", "PD", "x", "NL"}

RECURSIVE StreamsUpTo(_, _)
StreamsUpTo(alphabet, n) ==
    IF n = 0 THEN {<<>>}
    ELSE LET shorter == StreamsUpTo(alphabet, n - 1)
         IN  shorter \cup {Append(s, f) : s \in shorter, f \in alphabet}

Streams == StreamsUpTo(Fragments, MaxStrLen)

ExitStatuses == 0..SSH_ERROR

-----------------------------------------------------------------------------
(* What a call gives its caller *)

Result(p) == [exit_status |-> p.exit_status, stdout |-> p.stdout, stderr |-> p.stderr]

NoResult == [exit_status |-> NoStatus, stdout |-> <<>>, stderr |-> <<>>]

Returned(result) == [exc |-> "none", msg |-> "", result |-> result]

Raised(cls, msg, result) == [exc |-> cls, msg |-> msg, result |-> result]

Pending == [exc |-> "pending", msg |-> "", result |-> NoResult]

NoArgs == [ignore_status |-> FALSE,
           stdout_ok_regexp |-> "", stdout_err_regexp |-> "",
           stderr_ok_regexp |-> "", stderr_err_regexp |-> ""]

NoEnv == [ping |-> "none", install |-> "none", send_file |-> "none"]

Threads == 1..MaxThreads

\* A caller that has called nothing yet. todo: the steps its call still has to
\* make; log: the steps made, with what they did; sp: the local process of the
\* AsyncJob it was handed ("none", "running", "exited", "killed").
IdleThread == [at |-> "idle", op |-> "none", ignore_status |-> FALSE, todo |-> <<>>,
               log |-> <<>>, exc |-> "none", sp |-> "none", kills |-> 0,
               kill_raised |-> FALSE]

NoThreads == [t \in Threads |-> IdleThread]

NoProc == [timed_out |-> FALSE, exit_status |-> NoStatus, stdout |-> <<>>, stderr |-> <<>>]

-----------------------------------------------------------------------------
(* SSHHost._run and SSHHost.run *)

\* re.search(r'^ssh: connect to host .* port .*: Connection timed out\r$', stderr):
\* no re.MULTILINE, so ^ is the start of the string and $ is its end or the place
\* before a newline that ends it; '.' matches anything but a newline.
ConnectionTimedOut(stderr) ==
    LET line == IF Len(stderr) > 0 /\ stderr[Len(stderr)] = "NL"
                THEN SubSeq(stderr, 1, Len(stderr) - 1)
                ELSE stderr
    IN  /\ Len(line) >= 2
        /\ line[1] = "HEAD"
        /\ line[Len(line)] = "TAIL"
        /\ \A k \in 2..(Len(line) - 1) : line[k] # "NL"

\* "Permission denied." in result.stderr
PermissionDenied(stderr) == \E i \in 1..Len(stderr) : stderr[i] = "PD"

\* utils.run(full_cmd, timeout, True, ...): ignore_status is True, so an exit status
\* never raises; CmdError is raised only when the command timed out.
utils_run(p) ==
    IF p.timed_out
    THEN Raised("CmdError", "full_cmd", Result(p))
    ELSE Returned(Result(p))

\* not ignore_status and result.exit_status > 0
CommandFailed_any_status(result, ignore_status) == result.exit_status > 0

CommandFailed_ssh_error_always(result, ignore_status) ==
    \/ ~ignore_status /\ result.exit_status > 0
    \/ result.exit_status = SSH_ERROR

CommandFailed(result, ignore_status) == ~ignore_status /\ result.exit_status > 0

\* _run with the status 255 block skipped when ignore_status is set
_run_ssh_errors_ignored(p, ignore_status) ==
    LET r == utils_run(p)
        result == r.result
    IN  IF r.exc # "none" THEN r
        ELSE IF ~ignore_status /\ result.exit_status = SSH_ERROR
                /\ ConnectionTimedOut(result.stderr)
        THEN Raised("AutoservSSHTimeout", "ssh timed out", result)
        ELSE IF ~ignore_status /\ result.exit_status = SSH_ERROR
                /\ PermissionDenied(result.stderr)
        THEN Raised("AutoservSshPermissionDeniedError", "ssh permission denied", result)
        ELSE IF CommandFailed(result, ignore_status)
        THEN Raised("AutoservRunError", "command execution error", result)
        ELSE Returned(result)

\* _run with the permission-denied test made before the timed-out test
_run_permission_first(p, ignore_status) ==
    LET r == utils_run(p)
        result == r.result
    IN  IF r.exc # "none" THEN r
        ELSE IF result.exit_status = SSH_ERROR /\ PermissionDenied(result.stderr)
        THEN Raised("AutoservSshPermissionDeniedError", "ssh permission denied", result)
        ELSE IF result.exit_status = SSH_ERROR /\ ConnectionTimedOut(result.stderr)
        THEN Raised("AutoservSSHTimeout", "ssh timed out", result)
        ELSE IF CommandFailed(result, ignore_status)
        THEN Raised("AutoservRunError", "command execution error", result)
        ELSE Returned(result)

_run(p, ignore_status) ==
    LET r == utils_run(p)
        result == r.result
    IN  IF r.exc # "none" THEN r
        ELSE IF result.exit_status = SSH_ERROR /\ ConnectionTimedOut(result.stderr)
        THEN Raised("AutoservSSHTimeout", "ssh timed out", result)
        ELSE IF result.exit_status = SSH_ERROR /\ PermissionDenied(result.stderr)
        THEN Raised("AutoservSshPermissionDeniedError", "ssh permission denied", result)
        ELSE IF CommandFailed(result, ignore_status)
        THEN Raised("AutoservRunError", "command execution error", result)
        ELSE Returned(result)

\* run without its except clause: CmdError reaches the caller
run_CmdError_not_caught(p, ignore_status) == _run(p, ignore_status)

\* The part of run after start_master_ssh(): _run, with CmdError rewrapped.
run(p, ignore_status) ==
    LET r == _run(p, ignore_status)
    IN  IF r.exc = "CmdError"
        THEN Raised("AutoservRunError", r.msg, r.result)
        ELSE r

-----------------------------------------------------------------------------
(* Classification of one run call: the inputs are drawn by InitRun *)

RunProcs ==
    {[timed_out |-> FALSE, exit_status |-> s, stdout |-> <<"x">>, stderr |-> e] :
        s \in ExitStatuses, e \in Streams}
    \cup
    {[timed_out |-> TRUE, exit_status |-> NoStatus, stdout |-> <<>>, stderr |-> e] :
        e \in StreamsUpTo(Fragments, 1)}

InitRun ==
    /\ password = FALSE
    /\ phase = "ready"
    /\ master = FALSE
    /\ installs = 0
    /\ job = "none"
    /\ env = NoEnv
    /\ op = "run"
    /\ args \in {[NoArgs EXCEPT !.ignore_status = b] : b \in BOOLEAN}
    /\ proc \in RunProcs
    /\ outcome = Pending
    /\ log = <<>>
    /\ threads = NoThreads

ApplyRun ==
    /\ op = "run"
    /\ outcome = Pending
    /\ master' = TRUE
    /\ log' = <<"start_master_ssh", "utils.run">>
    /\ outcome' = run(proc, args.ignore_status)
    /\ UNCHANGED <<threads, password, phase, installs, job, op, args, proc, env>>

NextRun == ApplyRun

SpecRun == InitRun /\ [][NextRun]_vars

RunDone == op = "run" /\ outcome # Pending

Finished == ~proc.timed_out

\* stderr holds the text "Permission denied." somewhere
HasPermissionDeniedMarker == \E i \in 1..Len(proc.stderr) : proc.stderr[i] = "PD"

\* stderr is one line "ssh: connect to host X port Y: Connection timed out\r"
IsConnectionTimedOutLine ==
    /\ Len(proc.stderr) >= 2
    /\ proc.stderr[1] = "HEAD"
    /\ proc.stderr[Len(proc.stderr)] = "TAIL"
    /\ \A k \in 1..Len(proc.stderr) : proc.stderr[k] # "NL"

RemoteExecutionError ==
    Raised("AutoservRunError", "command execution error", Result(proc))

\* C1: a run whose process finishes with exit status s in 0..254 raises
\* AutoservRunError carrying the result iff s >= 1 and ignore_status is false;
\* otherwise it returns the result, exit status unchanged.
C1_RunStatusContract ==
    (RunDone /\ Finished /\ proc.exit_status \in 0..(SSH_ERROR - 1)) =>
        IF proc.exit_status >= 1 /\ ~args.ignore_status
        THEN outcome = RemoteExecutionError
        ELSE outcome = Returned(Result(proc))

C1_Witness ==
    /\ RunDone /\ Finished
    /\ proc.exit_status = SSH_ERROR - 1
    /\ ~args.ignore_status
    /\ outcome.exc = "AutoservRunError"

\* C2 as stated: with exit status 255, a stderr that is the connection-timed-out
\* line raises AutoservSSHTimeout and a stderr containing "Permission denied."
\* raises AutoservSshPermissionDeniedError, whatever ignore_status is.
C2_AsStated ==
    (RunDone /\ Finished /\ proc.exit_status = SSH_ERROR) =>
        /\ IsConnectionTimedOutLine =>
              outcome = Raised("AutoservSSHTimeout", "ssh timed out", Result(proc))
        /\ HasPermissionDeniedMarker =>
              outcome = Raised("AutoservSshPermissionDeniedError",
                               "ssh permission denied", Result(proc))

\* C2 amended: the same, except that a stderr containing "Permission denied."
\* raises the authentication error only when it does not also match the
\* connection-timed-out pattern (then the transport timeout is raised); in all
\* these cases an error is raised and no result is returned, for both values of
\* ignore_status.
C2_TransportErrorsNotSuppressed ==
    (RunDone /\ Finished /\ proc.exit_status = SSH_ERROR) =>
        /\ IsConnectionTimedOutLine =>
              outcome = Raised("AutoservSSHTimeout", "ssh timed out", Result(proc))
        /\ (HasPermissionDeniedMarker /\ ~ConnectionTimedOut(proc.stderr)) =>
              outcome = Raised("AutoservSshPermissionDeniedError",
                               "ssh permission denied", Result(proc))
        /\ (HasPermissionDeniedMarker /\ ConnectionTimedOut(proc.stderr)) =>
              outcome = Raised("AutoservSSHTimeout", "ssh timed out", Result(proc))

C2_Witness ==
    /\ RunDone /\ Finished
    /\ args.ignore_status
    /\ proc.exit_status = SSH_ERROR
    /\ proc.stderr = <<"x", "NL", "PD">>
    /\ outcome.exc = "AutoservSshPermissionDeniedError"

NeitherMarker == ~ConnectionTimedOut(proc.stderr) /\ ~HasPermissionDeniedMarker

\* C3 as stated: exit status 255 with neither marker raises the remote-execution
\* error carrying the result, with no condition on ignore_status.
C3_AsStated ==
    (RunDone /\ Finished /\ proc.exit_status = SSH_ERROR /\ NeitherMarker) =>
        outcome = RemoteExecutionError

\* C3 amended: exit status 255 with neither marker is handled like every other
\* non-zero status: the remote-execution error carrying the result is raised
\* when ignore_status is false, and the result is returned with status 255 when
\* ignore_status is true.
C3_GenericSshError ==
    (RunDone /\ Finished /\ proc.exit_status = SSH_ERROR /\ NeitherMarker) =>
        IF args.ignore_status
        THEN outcome = Returned(Result(proc))
        ELSE outcome = RemoteExecutionError

C3_Witness ==
    /\ RunDone /\ Finished
    /\ proc.exit_status = SSH_ERROR
    /\ NeitherMarker
    /\ proc.stderr # <<>>
    /\ args.ignore_status
    /\ outcome = Returned(Result(proc))

\* C4 as stated: a local timeout makes run fail, for both values of
\* ignore_status, with an error of another kind than the one raised for a
\* non-zero exit status.
C4_AsStated ==
    (RunDone /\ proc.timed_out) =>
        /\ outcome.exc # "none"
        /\ outcome.exc # RemoteExecutionError.exc

\* C4 amended: a local timeout makes run fail for both values of ignore_status,
\* and the error is an AutoservRunError, the class also raised for a non-zero
\* exit status; it carries the timed-out command's CmdError arguments (the
\* command line and the partial result) instead of "command execution error".
C4_LocalTimeout ==
    (RunDone /\ proc.timed_out) =>
        /\ outcome = Raised("AutoservRunError", "full_cmd", Result(proc))
        /\ outcome.exc = RemoteExecutionError.exc
        /\ outcome.msg # RemoteExecutionError.msg

C4_Witness ==
    /\ RunDone
    /\ proc.timed_out
    /\ args.ignore_status
    /\ outcome.exc = "AutoservRunError"

\* stderr satisfies the connection-timed-out pattern: one line (a newline may end
\* it) that starts with "ssh: connect to host " and ends with
\* " port 22: Connection timed out\r"
SatisfiesTimedOutPattern ==
    \/ IsConnectionTimedOutLine
    \/ /\ Len(proc.stderr) >= 3
       /\ proc.stderr[1] = "HEAD"
       /\ proc.stderr[Len(proc.stderr) - 1] = "TAIL"
       /\ proc.stderr[Len(proc.stderr)] = "NL"
       /\ \A k \in 1..(Len(proc.stderr) - 1) : proc.stderr[k] # "NL"

\* C14: the checks of run are made in the order transport-timeout,
\* authentication, generic: with exit status 255 and a stderr that satisfies both
\* the connection-timed-out pattern and the permission-denied marker, run raises
\* AutoservSSHTimeout and not the authentication error; and neither of the two
\* errors is raised for an exit status other than 255, whatever stderr holds.
C14_CheckOrder ==
    /\ (RunDone /\ Finished /\ proc.exit_status = SSH_ERROR
           /\ SatisfiesTimedOutPattern /\ HasPermissionDeniedMarker) =>
          outcome = Raised("AutoservSSHTimeout", "ssh timed out", Result(proc))
    /\ (RunDone /\ (proc.timed_out \/ proc.exit_status # SSH_ERROR)) =>
          outcome.exc \notin {"AutoservSSHTimeout", "AutoservSshPermissionDeniedError"}

C14_Witness ==
    /\ RunDone /\ Finished
    /\ proc.exit_status = SSH_ERROR
    /\ proc.stderr = <<"HEAD", "PD", "TAIL">>
    /\ outcome.exc = "AutoservSSHTimeout"


-----------------------------------------------------------------------------
(* SSHHost.run_grep *)

\* A regexp argument is "" (not given: None), "x" (the text of that fragment,
\* matched literally) or ".*" (matches every string, the empty one too).
GrepPatterns == {"", "x", ".*"}

\* re.compile(regexp).search(stream)
re_search(regexp, stream) ==
    \/ regexp = ".*"
    \/ \E i \in 1..Len(stream) : stream[i] = regexp

\* if regexp and stream:
Searched_without_stream_guard(regexp, stream) == regexp # ""

Searched(regexp, stream) == regexp # "" /\ stream # <<>>

Found(regexp, stream) == Searched(regexp, stream) /\ re_search(regexp, stream)

PatternFailure(regexp, result) ==
    Raised("AutoservRunError", "found error pattern: " \o regexp, result)

\* run_grep with the ok patterns looked for before the error patterns
run_grep_ok_first(p, a) ==
    LET r == run(p, TRUE)
        result == r.result
    IN  IF r.exc # "none" THEN r
        ELSE IF Found(a.stderr_ok_regexp, result.stderr) THEN Returned(NoResult)
        ELSE IF Found(a.stdout_ok_regexp, result.stdout) THEN Returned(NoResult)
        ELSE IF Found(a.stderr_err_regexp, result.stderr)
        THEN PatternFailure(a.stderr_err_regexp, result)
        ELSE IF Found(a.stdout_err_regexp, result.stdout)
        THEN PatternFailure(a.stdout_err_regexp, result)
        ELSE IF ~a.ignore_status /\ result.exit_status > 0
        THEN Raised("AutoservRunError", "command execution error", result)
        ELSE Returned(NoResult)

\* run is called with ignore_status=True and its exceptions are not caught; the
\* method returns None (here: no result) when it does not raise.
run_grep(p, a) ==
    LET r == run(p, TRUE)
        result == r.result
    IN  IF r.exc # "none" THEN r
        ELSE IF Found(a.stderr_err_regexp, result.stderr)
        THEN PatternFailure(a.stderr_err_regexp, result)
        ELSE IF Found(a.stdout_err_regexp, result.stdout)
        THEN PatternFailure(a.stdout_err_regexp, result)
        ELSE IF Found(a.stderr_ok_regexp, result.stderr) THEN Returned(NoResult)
        ELSE IF Found(a.stdout_ok_regexp, result.stdout) THEN Returned(NoResult)
        ELSE IF ~a.ignore_status /\ result.exit_status > 0
        THEN Raised("AutoservRunError", "command execution error", result)
        ELSE Returned(NoResult)

\* The searches run_grep makes, in order.
run_grep_searches(p, a) ==
    LET r == run(p, TRUE)
        result == r.result
        one(name, regexp, stream) ==
            IF Searched(regexp, stream) THEN <<name>> ELSE <<>>
        errs == one("stderr_err_regexp", a.stderr_err_regexp, result.stderr)
                \o (IF Found(a.stderr_err_regexp, result.stderr) THEN <<>>
                    ELSE one("stdout_err_regexp", a.stdout_err_regexp, result.stdout))
        oks ==  one("stderr_ok_regexp", a.stderr_ok_regexp, result.stderr)
                \o (IF Found(a.stderr_ok_regexp, result.stderr) THEN <<>>
                    ELSE one("stdout_ok_regexp", a.stdout_ok_regexp, result.stdout))
    IN  IF r.exc # "none" THEN <<>>
        ELSE IF \/ Found(a.stderr_err_regexp, result.stderr)
                \/ Found(a.stdout_err_regexp, result.stdout)
        THEN errs
        ELSE errs \o oks

-----------------------------------------------------------------------------
(* One run_grep call: the inputs are drawn by InitGrep *)

GrepStderrs == StreamsUpTo({"HEAD", "TAIL", "PD", "x"}, MaxGrepLen)

GrepStdouts == StreamsUpTo({"PD", "x"}, MaxGrepLen)

GrepStatuses == {0, 1, SSH_ERROR}

GrepProcs ==
    {[timed_out |-> FALSE, exit_status |-> s, stdout |-> o, stderr |-> e] :
        s \in GrepStatuses, o \in GrepStdouts, e \in GrepStderrs}
    \cup
    {[timed_out |-> TRUE, exit_status |-> NoStatus, stdout |-> o, stderr |-> <<>>] :
        o \in StreamsUpTo({"x"}, 1)}

GrepArgs ==
    [ignore_status : BOOLEAN,
     stdout_ok_regexp : GrepPatterns, stdout_err_regexp : GrepPatterns,
     stderr_ok_regexp : GrepPatterns, stderr_err_regexp : GrepPatterns]

InitGrep ==
    /\ password = FALSE
    /\ phase = "ready"
    /\ master = FALSE
    /\ installs = 0
    /\ job = "none"
    /\ env = NoEnv
    /\ op = "run_grep"
    /\ args \in GrepArgs
    /\ proc \in GrepProcs
    /\ outcome = Pending
    /\ log = <<>>
    /\ threads = NoThreads

ApplyRunGrep ==
    /\ op = "run_grep"
    /\ outcome = Pending
    /\ master' = TRUE
    /\ log' = <<"start_master_ssh", "utils.run">> \o run_grep_searches(proc, args)
    /\ outcome' = run_grep(proc, args)
    /\ UNCHANGED <<threads, password, phase, installs, job, op, args, proc, env>>

NextGrep == ApplyRunGrep

SpecGrep == InitGrep /\ [][NextGrep]_vars

GrepDone == op = "run_grep" /\ outcome # Pending

\* the underlying run returned a result (it raised nothing)
RunReturned == run(proc, TRUE).exc = "none"

InLog(name) == \E i \in 1..Len(log) : log[i] = name

\* a given pattern is found by re.search in its stream, and the stream is not empty
MatchesNonEmpty(regexp, stream) ==
    regexp # "" /\ stream # <<>> /\ re_search(regexp, stream)

\* a given pattern is found by re.search in its stream, empty or not
Matches(regexp, stream) == regexp # "" /\ re_search(regexp, stream)

StderrErrMatched == MatchesNonEmpty(args.stderr_err_regexp, proc.stderr)

StdoutErrMatched == MatchesNonEmpty(args.stdout_err_regexp, proc.stdout)

ErrorPatternFailure ==
    IF StderrErrMatched
    THEN Raised("AutoservRunError", "found error pattern: " \o args.stderr_err_regexp,
                Result(proc))
    ELSE Raised("AutoservRunError", "found error pattern: " \o args.stdout_err_regexp,
                Result(proc))

OnlyStderrErrSet ==
    /\ args.stderr_err_regexp # ""
    /\ args.stdout_err_regexp = ""
    /\ args.stderr_ok_regexp = ""
    /\ args.stdout_ok_regexp = ""

ErrorPatternsFirst ==
    /\ (StderrErrMatched \/ StdoutErrMatched) =>
          /\ outcome = ErrorPatternFailure
          /\ ~InLog("stderr_ok_regexp")
          /\ ~InLog("stdout_ok_regexp")
    /\ (OnlyStderrErrSet /\ ~StderrErrMatched /\ proc.exit_status = 0) =>
          outcome = Returned(NoResult)

\* C5 as stated: whenever a configured error pattern matches its non-empty
\* stream, run_grep raises the pattern-matched failure (whatever the exit status,
\* ignore_status and the ok patterns are) and searches for no ok pattern before;
\* with only stderr_err_regexp set, no match and exit status 0 it returns.
C5_AsStated == (GrepDone /\ Finished) => ErrorPatternsFirst

\* C5 amended: the same, for the calls whose underlying run returned a result.
\* When run itself raises (status 255 with the connection-timed-out or the
\* permission-denied stderr, or a local timeout) that error reaches the caller
\* and no pattern is looked at.
C5_ErrorPatternsFirst ==
    /\ (GrepDone /\ RunReturned) => ErrorPatternsFirst
    /\ (GrepDone /\ ~RunReturned) =>
          /\ outcome = run(proc, TRUE)
          /\ log = <<"start_master_ssh", "utils.run">>

C5_Witness ==
    /\ GrepDone /\ RunReturned
    /\ proc.exit_status = 0
    /\ args.ignore_status
    /\ StdoutErrMatched /\ ~StderrErrMatched
    /\ MatchesNonEmpty(args.stderr_ok_regexp, proc.stderr)
    /\ outcome = ErrorPatternFailure

GenericGrepFailure ==
    Raised("AutoservRunError", "command execution error", Result(proc))

\* C6 as stated: when run returned a result and no error pattern matched,
\* run_grep raises the generic remote-execution error iff no configured ok
\* pattern matched its stream, the exit status is non-zero and ignore_status is
\* false; otherwise it returns normally.
C6_AsStated ==
    (GrepDone /\ RunReturned
        /\ ~Matches(args.stderr_err_regexp, proc.stderr)
        /\ ~Matches(args.stdout_err_regexp, proc.stdout)) =>
        IF /\ ~Matches(args.stderr_ok_regexp, proc.stderr)
           /\ ~Matches(args.stdout_ok_regexp, proc.stdout)
           /\ proc.exit_status # 0
           /\ ~args.ignore_status
        THEN outcome = GenericGrepFailure
        ELSE outcome = Returned(NoResult)

\* C6 amended: a pattern counts as matched only against a non-empty stream (an
\* empty stream is never searched, so an ok pattern that matches the empty
\* string does not make the call succeed). When run returned a result and no
\* error pattern matched its non-empty stream, run_grep raises the generic
\* remote-execution error iff no configured ok pattern matched its non-empty
\* stream, the exit status is non-zero and ignore_status is false; otherwise it
\* returns normally.
C6_OkPatternsThenStatus ==
    (GrepDone /\ RunReturned /\ ~StderrErrMatched /\ ~StdoutErrMatched) =>
        IF /\ ~MatchesNonEmpty(args.stderr_ok_regexp, proc.stderr)
           /\ ~MatchesNonEmpty(args.stdout_ok_regexp, proc.stdout)
           /\ proc.exit_status # 0
           /\ ~args.ignore_status
        THEN outcome = GenericGrepFailure
        ELSE outcome = Returned(NoResult)

C6_Witness ==
    /\ GrepDone /\ RunReturned
    /\ ~StderrErrMatched /\ ~StdoutErrMatched
    /\ proc.exit_status = 1
    /\ ~args.ignore_status
    /\ MatchesNonEmpty(args.stdout_ok_regexp, proc.stdout)
    /\ ~MatchesNonEmpty(args.stderr_ok_regexp, proc.stderr)
    /\ args.stderr_ok_regexp # ""
    /\ outcome = Returned(NoResult)

\* C7: run_grep raises whenever a configured ok pattern is not found in its
\* stream (stderr_ok_regexp in stderr, stdout_ok_regexp in stdout), for every
\* exit status.
C7_OkPatternMissingRaises ==
    (GrepDone /\ Finished
        /\ \/ args.stderr_ok_regexp # "" /\ ~re_search(args.stderr_ok_regexp, proc.stderr)
           \/ args.stdout_ok_regexp # "" /\ ~re_search(args.stdout_ok_regexp, proc.stdout)) =>
        outcome.exc # "none"

\* C8: with ignore_status=True and no error pattern configured, run_grep raises
\* nothing, whatever the exit status and stderr are.
C8_IgnoreStatusNeverRaises ==
    (GrepDone /\ Finished /\ args.ignore_status
        /\ args.stderr_err_regexp = "" /\ args.stdout_err_regexp = "") =>
        outcome.exc = "none"

-----------------------------------------------------------------------------
(* SSHHost.setup_ssh, SSHHost._initialize, AsyncSSHMixin.run_async *)

\* self.ssh_ping() returns, raises AutoservSshPingHostError, or raises an error
\* that setup_ssh's except clause does not name.
PingOutcomes == {"ok", "AutoservSshPingHostError", "AutoservSSHTimeout",
                 "AutoservSshPermissionDeniedError"}

\* ssh_key.setup_ssh_key(hostname, user, password, port) returns or raises.
InstallOutcomes == {"ok", "raised"}

\* self.send_file(...) returns or raises.
SendFileOutcomes == {"ok", "raised"}

\* setup_ssh with the probe made again after the key is installed
setup_ssh_probing_again(pw, ping, install) ==
    IF ~pw
    THEN [outcome |-> Returned(NoResult), log |-> <<>>, installed |-> 0]
    ELSE IF ping = "ok"
    THEN [outcome |-> Returned(NoResult), log |-> <<"ssh_ping">>, installed |-> 0]
    ELSE IF ping = "AutoservSshPingHostError"
    THEN IF install = "ok"
         THEN [outcome |-> Returned(NoResult),
               log |-> <<"ssh_ping", "setup_ssh_key", "ssh_ping">>, installed |-> 1]
         ELSE [outcome |-> Raised("setup_ssh_key error", "", NoResult),
               log |-> <<"ssh_ping", "setup_ssh_key">>, installed |-> 1]
    ELSE [outcome |-> Raised(ping, "", NoResult), log |-> <<"ssh_ping">>, installed |-> 0]

\* setup_ssh without its test of self.password
setup_ssh_without_password_test(pw, ping, install) ==
    IF ping = "ok"
    THEN [outcome |-> Returned(NoResult), log |-> <<"ssh_ping">>, installed |-> 0]
    ELSE IF ping = "AutoservSshPingHostError"
    THEN [outcome |-> IF install = "ok" THEN Returned(NoResult)
                      ELSE Raised("setup_ssh_key error", "", NoResult),
          log |-> <<"ssh_ping", "setup_ssh_key">>, installed |-> 1]
    ELSE [outcome |-> Raised(ping, "", NoResult), log |-> <<"ssh_ping">>, installed |-> 0]

\* What setup_ssh gives its caller, the collaborators it calls in order, and the
\* number of setup_ssh_key calls it makes.
setup_ssh(pw, ping, install) ==
    IF ~pw
    THEN [outcome |-> Returned(NoResult), log |-> <<>>, installed |-> 0]
    ELSE IF ping = "ok"
    THEN [outcome |-> Returned(NoResult), log |-> <<"ssh_ping">>, installed |-> 0]
    ELSE IF ping = "AutoservSshPingHostError"
    THEN [outcome |-> IF install = "ok" THEN Returned(NoResult)
                      ELSE Raised("setup_ssh_key error", "", NoResult),
          log |-> <<"ssh_ping", "setup_ssh_key">>, installed |-> 1]
    ELSE [outcome |-> Raised(ping, "", NoResult), log |-> <<"ssh_ping">>, installed |-> 0]

\* The answers of the collaborators that a setup_ssh call consumes.
SetupEnv(pw, ping, install) ==
    [ping |-> IF pw THEN ping ELSE "none",
     install |-> IF pw /\ ping = "AutoservSshPingHostError" THEN install ELSE "none",
     send_file |-> "none"]

SetupInputs == {<<ping, install>> \in PingOutcomes \X InstallOutcomes :
                    /\ ping # "AutoservSshPingHostError" => install = "ok"}

\* run_async: start_master_ssh, run("mkdir -p ..."), send_file, AsyncJob.
run_async(p, send) ==
    LET r == run(p, FALSE)
    IN  IF r.exc # "none"
        THEN [outcome |-> r, log |-> <<"start_master_ssh", "utils.run">>, spawned |-> FALSE]
        ELSE IF send = "raised"
        THEN [outcome |-> Raised("send_file error", "", NoResult),
              log |-> <<"start_master_ssh", "utils.run", "send_file">>,
              spawned |-> FALSE]
        ELSE [outcome |-> Returned(NoResult),
              log |-> <<"start_master_ssh", "utils.run", "send_file", "AsyncJob">>,
              spawned |-> TRUE]

-----------------------------------------------------------------------------
(* The life of one host object *)

HostProcs ==
    {[timed_out |-> FALSE, exit_status |-> s, stdout |-> o, stderr |-> e] :
        s \in GrepStatuses, o \in StreamsUpTo({"x"}, 1), e \in StreamsUpTo({"PD"}, 1)}
    \cup {[timed_out |-> TRUE, exit_status |-> NoStatus, stdout |-> <<>>, stderr |-> <<>>]}

HostGrepArgs ==
    [ignore_status : BOOLEAN,
     stdout_ok_regexp : {"", "x"}, stdout_err_regexp : {"", "x"},
     stderr_ok_regexp : {""}, stderr_err_regexp : {"", ".*"}]

Init ==
    /\ password \in BOOLEAN
    /\ phase = "new"
    /\ master = FALSE
    /\ installs = 0
    /\ job = "none"
    /\ op = "none"
    /\ args = NoArgs
    /\ proc = NoProc
    /\ env = NoEnv
    /\ outcome = Returned(NoResult)
    /\ log = <<>>
    /\ threads = NoThreads

\* SSHHost(hostname, ...): the base class sets the fields, then setup_ssh runs;
\* an error of setup_ssh leaves no host object.
Initialize ==
    /\ phase = "new"
    /\ \E in \in SetupInputs :
        LET s == setup_ssh(password, in[1], in[2])
        IN  /\ installs + s.installed <= MaxInstalls
            /\ installs' = installs + s.installed
            /\ env' = SetupEnv(password, in[1], in[2])
            /\ outcome' = s.outcome
            /\ log' = s.log
            /\ phase' = IF s.outcome.exc = "none" THEN "ready" ELSE "failed"
    /\ op' = "_initialize"
    /\ args' = NoArgs
    /\ proc' = NoProc
    /\ UNCHANGED <<threads, password, master, job>>

SetupSsh ==
    /\ phase = "ready"
    /\ \E in \in SetupInputs :
        LET s == setup_ssh(password, in[1], in[2])
        IN  /\ installs + s.installed <= MaxInstalls
            /\ installs' = installs + s.installed
            /\ env' = SetupEnv(password, in[1], in[2])
            /\ outcome' = s.outcome
            /\ log' = s.log
    /\ op' = "setup_ssh"
    /\ args' = NoArgs
    /\ proc' = NoProc
    /\ UNCHANGED <<threads, password, phase, master, job>>

Run ==
    /\ phase = "ready"
    /\ \E p \in HostProcs, b \in BOOLEAN :
        /\ proc' = p
        /\ args' = [NoArgs EXCEPT !.ignore_status = b]
        /\ outcome' = run(p, b)
    /\ op' = "run"
    /\ master' = TRUE
    /\ env' = NoEnv
    /\ log' = <<"start_master_ssh", "utils.run">>
    /\ UNCHANGED <<threads, password, phase, installs, job>>

\* run_short(command, **kwargs) is run(command, timeout=60, **kwargs)
RunShort ==
    /\ phase = "ready"
    /\ \E p \in HostProcs, b \in BOOLEAN :
        /\ proc' = p
        /\ args' = [NoArgs EXCEPT !.ignore_status = b]
        /\ outcome' = run(p, b)
    /\ op' = "run_short"
    /\ master' = TRUE
    /\ env' = NoEnv
    /\ log' = <<"start_master_ssh", "utils.run">>
    /\ UNCHANGED <<threads, password, phase, installs, job>>

RunGrep ==
    /\ phase = "ready"
    /\ \E p \in HostProcs, a \in HostGrepArgs :
        /\ proc' = p
        /\ args' = a
        /\ outcome' = run_grep(p, a)
        /\ log' = <<"start_master_ssh", "utils.run">> \o run_grep_searches(p, a)
    /\ op' = "run_grep"
    /\ master' = TRUE
    /\ env' = NoEnv
    /\ UNCHANGED <<threads, password, phase, installs, job>>

RunAsync ==
    /\ phase = "ready"
    /\ \E p \in HostProcs, send \in SendFileOutcomes :
        LET a == run_async(p, send)
        IN  /\ proc' = p
            /\ env' = [NoEnv EXCEPT !.send_file =
                          IF run(p, FALSE).exc = "none" THEN send ELSE "none"]
            /\ outcome' = a.outcome
            /\ log' = a.log
            /\ job' = IF a.spawned THEN "running" ELSE job
    /\ op' = "run_async"
    /\ args' = NoArgs
    /\ master' = TRUE
    /\ UNCHANGED <<threads, password, phase, installs>>

Next ==
    \/ Initialize
    \/ SetupSsh
    \/ Run
    \/ RunShort
    \/ RunGrep
    \/ RunAsync

Spec == Init /\ [][Next]_vars

SetupCall == op \in {"_initialize", "setup_ssh"}

\* the host has a password and the call's first probe raised AutoservSshPingHostError
Bootstrapped == SetupCall /\ password /\ env.ping = "AutoservSshPingHostError"

\* C9 as stated: when the host has a password and the first probe fails, the key
\* is installed and then the probe is made again (one install, two probes, and
\* nothing after them), so that a failure that persists can be surfaced.
C9_AsStated ==
    (Bootstrapped /\ env.install = "ok") =>
        log = <<"ssh_ping", "setup_ssh_key", "ssh_ping">>

\* C9 amended: when the host has a password and the probe raises
\* AutoservSshPingHostError, the key is installed once and the probe is not made
\* again: the call makes exactly one probe and one install. It returns normally
\* whenever the install returns, whether or not the host now accepts the key (no
\* authentication error is surfaced by construction), and it fails only with
\* the error the install itself raises, in which case construction fails.
C9_KeyBootstrap ==
    Bootstrapped =>
        /\ log = <<"ssh_ping", "setup_ssh_key">>
        /\ env.install = "ok" => (outcome = Returned(NoResult) /\ phase = "ready")
        /\ env.install = "raised" =>
              /\ outcome.exc = "setup_ssh_key error"
              /\ op = "_initialize" => phase = "failed"

C9_Witness ==
    /\ op = "_initialize"
    /\ Bootstrapped
    /\ env.install = "ok"
    /\ phase = "ready"
    /\ installs = 1

\* C10 as stated: over any sequence of operations the key-provisioning
\* collaborator is invoked at most once, never when the host has no password,
\* and never in a call whose probe succeeds.
C10_AsStated ==
    /\ installs <= 1
    /\ ~password => installs = 0
    /\ env.ping = "ok" => ~InLog("setup_ssh_key")

\* C10 amended: the key-provisioning collaborator is invoked at most once per
\* construction or setup_ssh call (so possibly more than once in the life of a
\* host on which setup_ssh is called again): a call invokes it exactly when it
\* is a construction or a setup_ssh call, the host has a password and that
\* call's probe raises AutoservSshPingHostError. run, run_short, run_grep and
\* run_async never invoke it; it is never invoked when the host has no password
\* and never in a call whose probe succeeds.
C10_KeyProvisioning ==
    [][/\ installs' \in {installs, installs + 1}
       /\ (installs' = installs + 1) <=>
             /\ op' \in {"_initialize", "setup_ssh"}
             /\ password
             /\ env'.ping = "AutoservSshPingHostError"
       /\ (installs' = installs + 1) <=>
             (\E i \in 1..Len(log') : log'[i] = "setup_ssh_key")
       /\ ~password => installs' = 0
       /\ env'.ping = "ok" => installs' = installs]_vars

C10_Witness ==
    /\ op = "setup_ssh"
    /\ installs = 2
    /\ InLog("setup_ssh_key")
    /\ phase = "ready"

-----------------------------------------------------------------------------
(* Concurrent run and run_async calls on one host, step by step *)

\* run without its start_master_ssh call
run_steps_without_master == <<"utils.run">>

\* The calls run makes, in order: self.start_master_ssh(), then _run, which
\* composes the command line and hands it to utils.run.
run_steps == <<"start_master_ssh", "utils.run">>

\* run_async with the AsyncJob made before the helper is staged
run_async_steps_spawn_first ==
    <<"start_master_ssh", "AsyncJob">> \o run_steps \o <<"send_file">>

\* The calls run_async makes, in order: self.start_master_ssh(),
\* self.run("mkdir -p ..."), self.send_file(...), utils.AsyncJob(full_cmd, ...).
run_async_steps ==
    <<"start_master_ssh">> \o run_steps \o <<"send_file", "AsyncJob">>

\* start_master_ssh(): with a live master connection nothing is done; without
\* one a connection is started, which succeeds or fails; the test and the start
\* are one atomic step.
start_master_ssh(live, ok) ==
    IF live THEN [master |-> TRUE, event |-> "start_master_ssh:noop"]
    ELSE IF ok THEN [master |-> TRUE, event |-> "start_master_ssh:established"]
    ELSE [master |-> FALSE, event |-> "start_master_ssh:failed"]

\* utils.nuke_subprocess(sp): a process that is alive is terminated, one that
\* is not is left alone; nothing is raised.
nuke_subprocess(sp) ==
    [sp |-> IF sp = "running" THEN "killed" ELSE sp, raised |-> FALSE]

\* kill_func that only closes the channel to the process
kill_func_closing_only(sp) == [sp |-> sp, raised |-> FALSE]

\* kill_func(): utils.nuke_subprocess(job.sp)
kill_func(sp) == nuke_subprocess(sp)

ThreadProcs ==
    {[timed_out |-> FALSE, exit_status |-> 0, stdout |-> <<>>, stderr |-> <<>>],
     [timed_out |-> FALSE, exit_status |-> 1, stdout |-> <<>>, stderr |-> <<>>],
     [timed_out |-> FALSE, exit_status |-> SSH_ERROR, stdout |-> <<>>, stderr |-> <<"PD">>],
     [timed_out |-> TRUE, exit_status |-> NoStatus, stdout |-> <<>>, stderr |-> <<>>]}

\* A step of thread t's call that returned: the call goes on, or returns when
\* that was its last step.
StepDone(th, event) ==
    [th EXCEPT !.log = Append(th.log, event),
               !.todo = Tail(th.todo),
               !.at = IF Len(th.todo) = 1 THEN "returned" ELSE "running"]

\* A step of thread t's call that raised: the error reaches the caller and the
\* steps left are not made.
StepRaised(th, event, exc) ==
    [th EXCEPT !.log = Append(th.log, event),
               !.todo = <<>>,
               !.at = "raised",
               !.exc = exc]

NextStep(t, step) ==
    /\ threads[t].at = "running"
    /\ threads[t].todo # <<>>
    /\ Head(threads[t].todo) = step

InitThreads ==
    /\ password = FALSE
    /\ phase = "ready"
    /\ master = FALSE
    /\ installs = 0
    /\ job = "none"
    /\ op = "none"
    /\ args = NoArgs
    /\ proc = NoProc
    /\ env = NoEnv
    /\ outcome = Returned(NoResult)
    /\ log = <<>>
    /\ threads = NoThreads

CallRun(t) ==
    /\ threads[t].at = "idle"
    /\ \E b \in BOOLEAN :
        threads' = [threads EXCEPT ![t] =
            [IdleThread EXCEPT !.at = "running", !.op = "run",
                               !.ignore_status = b, !.todo = run_steps]]
    /\ UNCHANGED <<password, phase, master, installs, job, op, args, proc, env,
                   outcome, log>>

CallRunAsync(t) ==
    /\ threads[t].at = "idle"
    /\ threads' = [threads EXCEPT ![t] =
            [IdleThread EXCEPT !.at = "running", !.op = "run_async",
                               !.todo = run_async_steps]]
    /\ UNCHANGED <<password, phase, master, installs, job, op, args, proc, env,
                   outcome, log>>

StartMasterSsh(t) ==
    /\ NextStep(t, "start_master_ssh")
    /\ \E ok \in BOOLEAN :
        LET r == start_master_ssh(master, ok)
        IN  /\ master' = r.master
            /\ threads' = [threads EXCEPT ![t] = StepDone(threads[t], r.event)]
    /\ UNCHANGED <<password, phase, installs, job, op, args, proc, env, outcome, log>>

\* _run: the command line is composed and utils.run spawns it and waits for it.
\* The mkdir of run_async is a run with the default ignore_status=False.
UtilsRun(t) ==
    /\ NextStep(t, "utils.run")
    /\ \E p \in ThreadProcs :
        LET r == run(p, threads[t].ignore_status)
        IN  threads' = [threads EXCEPT ![t] =
                IF r.exc = "none"
                THEN StepDone(threads[t], "utils.run:ok")
                ELSE StepRaised(threads[t], "utils.run:raised", r.exc)]
    /\ UNCHANGED <<password, phase, master, installs, job, op, args, proc, env,
                   outcome, log>>

SendFile(t) ==
    /\ NextStep(t, "send_file")
    /\ \E send \in SendFileOutcomes :
        threads' = [threads EXCEPT ![t] =
            IF send = "ok"
            THEN StepDone(threads[t], "send_file:ok")
            ELSE StepRaised(threads[t], "send_file:raised", "send_file error")]
    /\ UNCHANGED <<password, phase, master, installs, job, op, args, proc, env,
                   outcome, log>>

\* utils.AsyncJob(full_cmd, ..., stdin=subprocess.PIPE) starts the local process
\* and does not wait for it; kill_func is attached and the job is returned.
SpawnAsyncJob(t) ==
    /\ NextStep(t, "AsyncJob")
    /\ threads' = [threads EXCEPT ![t] =
            [StepDone(threads[t], "AsyncJob") EXCEPT !.sp = "running"]]
    /\ UNCHANGED <<password, phase, master, installs, job, op, args, proc, env,
                   outcome, log>>

\* The local process of a job ends by itself.
ProcessExits(t) ==
    /\ threads[t].sp = "running"
    /\ threads' = [threads EXCEPT ![t].sp = "exited"]
    /\ UNCHANGED <<password, phase, master, installs, job, op, args, proc, env,
                   outcome, log>>

\* The caller invokes the kill function of the job it was handed.
Kill(t) ==
    /\ threads[t].at = "returned"
    /\ threads[t].op = "run_async"
    /\ threads[t].sp # "none"
    /\ threads[t].kills < MaxKills
    /\ LET r == kill_func(threads[t].sp)
       IN  threads' = [threads EXCEPT ![t].sp = r.sp,
                                      ![t].kills = @ + 1,
                                      ![t].kill_raised = @ \/ r.raised]
    /\ UNCHANGED <<password, phase, master, installs, job, op, args, proc, env,
                   outcome, log>>

NextThreads ==
    \E t \in Threads :
        \/ CallRun(t)
        \/ CallRunAsync(t)
        \/ StartMasterSsh(t)
        \/ UtilsRun(t)
        \/ SendFile(t)
        \/ SpawnAsyncJob(t)
        \/ ProcessExits(t)
        \/ Kill(t)

SpecThreads == InitThreads /\ [][NextThreads]_vars

IsEnsure(e) ==
    e \in {"start_master_ssh:noop", "start_master_ssh:established",
           "start_master_ssh:failed"}

\* the command of the call is composed and spawned
IsSpawn(e) == e \in {"utils.run:ok", "utils.run:raised", "AsyncJob"}

Kind(e) ==
    IF IsEnsure(e) THEN "start_master_ssh"
    ELSE IF e \in {"utils.run:ok", "utils.run:raised"} THEN "utils.run"
    ELSE IF e \in {"send_file:ok", "send_file:raised"} THEN "send_file"
    ELSE e

Logged(t, e) == \E i \in 1..Len(threads[t].log) : threads[t].log[i] = e

\* the connection establishments made so far, by any caller
Establishments ==
    UNION {{<<t, i>> : i \in {j \in 1..Len(threads[t].log) :
                                  threads[t].log[j] = "start_master_ssh:established"}} :
           t \in Threads}

EnsuredBeforeSpawn ==
    \A t \in Threads :
        threads[t].op \in {"run", "run_async"} =>
            /\ \A i \in 1..Len(threads[t].log) :
                  IsSpawn(threads[t].log[i]) =>
                      \E j \in 1..(i - 1) : IsEnsure(threads[t].log[j])
            /\ threads[t].at \in {"returned", "raised"} =>
                  \E j \in 1..Len(threads[t].log) : IsEnsure(threads[t].log[j])

LaterEnsureIsNoOp ==
    master =>
        /\ master'
        /\ Establishments' = Establishments
        /\ \A t \in Threads :
              (/\ Len(threads'[t].log) > Len(threads[t].log)
               /\ IsEnsure(threads'[t].log[Len(threads'[t].log)])) =>
                  threads'[t].log[Len(threads'[t].log)] = "start_master_ssh:noop"

RunAsyncOrder ==
    <<"start_master_ssh", "start_master_ssh", "utils.run", "send_file", "AsyncJob">>

RunAsyncInOrder(t) ==
    LET th == threads[t]
        n == Len(th.log)
    IN  /\ n <= Len(RunAsyncOrder)
        /\ \A i \in 1..n : Kind(th.log[i]) = RunAsyncOrder[i]
        /\ \A i \in 1..n :
              th.log[i] \in {"utils.run:raised", "send_file:raised"} =>
                  /\ i = n
                  /\ th.at = "raised"
                  /\ th.sp = "none"
                  /\ ~Logged(t, "AsyncJob")
                  /\ th.log[i] = "send_file:raised" => th.exc = "send_file error"
                  /\ th.log[i] = "utils.run:raised" =>
                        th.exc \in {"AutoservRunError", "AutoservSSHTimeout",
                                    "AutoservSshPermissionDeniedError"}
        /\ th.at = "returned" =>
              /\ n = Len(RunAsyncOrder)
              /\ th.exc = "none"
              /\ th.sp # "none"
        /\ th.sp # "none" => th.at = "returned"

HandleReturnedWhileRunning ==
    \A t \in Threads :
        (/\ threads'[t].op = "run_async"
         /\ threads[t].at # "returned"
         /\ threads'[t].at = "returned") =>
            threads'[t].sp = "running"

\* C12: run_async makes its steps in the order ensure-master-started, creation
\* of the helper directory (a synchronous run), send_file, spawn of the job; when
\* the directory creation or the file transfer fails it ends with that error,
\* spawns no process and returns no handle; when it returns the handle the
\* process is running: it has not been waited for.
C12_RunAsyncOrder ==
    /\ [](\A t \in Threads : threads[t].op = "run_async" => RunAsyncInOrder(t))
    /\ [][HandleReturnedWhileRunning]_vars

C12_Witness ==
    \E t \in Threads, u \in Threads :
        /\ threads[t].op = "run_async" /\ threads[t].at = "returned"
        /\ threads[t].sp = "running"
        /\ threads[u].op = "run_async" /\ threads[u].at = "raised"
        /\ Logged(u, "send_file:raised")

====
